---- MODULE Spec2Model ----
(***************************************************************************)
(* H265SpsParser::ParseSps over a bit buffer, and                          *)
(* H265SpsParser::SpsState::getPicSizeInCtbsY of src/h265_sps_parser.cc.   *)
(*                                                                         *)
(* One action per syntax element that ParseSps reads, in the order of the  *)
(* source.  pc names the syntax element that is read next; "done" is the   *)
(* state after a return statement.  The bit buffer is a sequence of bits   *)
(* with a cursor.  The caller's buffer is fixed before the call; the model *)
(* determines its contents as far as the cursor has looked at them: data   *)
(* is the part of the buffer seen so far, closed tells that data is the    *)
(* whole buffer, and a read draws the bits it looks at (or the end of the  *)
(* buffer) from the codewords listed in InputValues.                       *)
(***************************************************************************)
EXTENDS Integers, Sequences, FiniteSets, TLC

VARIABLES
  data,     \* bit_buffer: the bits of the buffer determined so far
  closed,   \* bit_buffer: TRUE when data is the whole buffer
  pos,      \* bit_buffer: the cursor, as a count of bits consumed
  pc,       \* ParseSps: the syntax element read next, or "done"; "SIGFPE"
            \* once a call of getPicSizeInCtbsY has trapped
  i,        \* ParseSps: the loop variable of the current for loop
  sps,      \* ParseSps: the SpsState under construction
  ret,      \* ParseSps: "pending", or what was returned: "nullptr" or "sps"
  trace,    \* history: every read and sub-parser call ParseSps has issued
  picSize   \* caller: the value getPicSizeInCtbsY returned, <<>> before the call

vars == <<data, closed, pos, pc, i, sps, ret, trace, picSize>>

(***************************************************************************)
(* Bounds of the explored inputs.                                          *)
(***************************************************************************)
\* stand-in for h265limits::NUM_SHORT_TERM_REF_PIC_SETS_MAX, whose value is
\* set in h265_common.h; the streams carry counts up to one above it
NUM_SHORT_TERM_REF_PIC_SETS_MAX == 2
\* largest num_long_term_ref_pics_sps carried by an explored stream
MaxLongTermRefPics == 2
\* bits of one sub-structure in the explored streams
SubStructureBits == 1
\* most sps_extension_data_flag bits before the RBSP trailing bits
MaxExtensionData == 2

Bit == {0, 1}
nullptr == <<>>
Ptr(x) == <<x>>

(***************************************************************************)
(* Bit strings.                                                            *)
(***************************************************************************)
RECURSIVE Pow2(_)
Pow2(k) == IF k = 0 THEN 1 ELSE 2 * Pow2(k - 1)

\* A uint32_t is held as the integer congruent to it modulo 2^32 in
\* -2^31 .. 2^31 - 1 (2^32 is not an integer of the model checker): a value
\* below 2^31 is itself, 2^32 - 4 is -4.  Addition of such integers is the
\* uint32_t addition, wrap-around included, as long as no sum crosses 2^31.

\* 2 * x on uint32_t
Times2(x) ==
  IF -1073741824 <= x /\ x < 1073741824 THEN 2 * x
  ELSE IF x > 0 THEN 2 * (x - 1073741824) - 2147483647 - 1
  ELSE 2 * (x + 1073741824) + 2147483647 + 1

\* the n bits of d after cursor p, most significant first, as a uint32_t
RECURSIVE BitsToNat(_, _, _)
BitsToNat(d, p, n) ==
  IF n = 0 THEN 0
  ELSE LET high == BitsToNat(d, p, n - 1) IN Times2(high) + d[p + n]

\* number of zero bits of d from cursor p up to the first one bit (or the end)
RECURSIVE LeadingZeros(_, _)
LeadingZeros(d, p) ==
  IF p >= Len(d) \/ d[p + 1] = 1 THEN 0 ELSE 1 + LeadingZeros(d, p + 1)

(***************************************************************************)
(* rtc::BitBuffer, as the spec describes it (section 4.1).                 *)
(***************************************************************************)
\* read_bits(n): the next n bits as a big-endian unsigned integer; fails
\* when n > 32 (n a uint32_t: negative n stands for 2^31 and above) or
\* fewer than n bits remain, and then consumes nothing
ReadBits(d, p, n) ==
  IF n < 0 \/ n > 32 \/ p + n > Len(d)
    THEN [ok |-> FALSE, val |-> 0, pos |-> p]
    ELSE [ok |-> TRUE, val |-> BitsToNat(d, p, n), pos |-> p + n]

\* read_exp_golomb(): k leading zero bits, a one bit, k suffix bits;
\* the value is 2^k - 1 + suffix as a uint32_t, 2^k + suffix being the one
\* bit and the suffix read as one number
ReadExponentialGolomb(d, p) ==
  LET k == LeadingZeros(d, p)
      s == ReadBits(d, p + k + 1, k)
  IN IF p + k >= Len(d) \/ ~s.ok
       THEN [ok |-> FALSE, val |-> 0, pos |-> p]
       ELSE [ok |-> TRUE, val |-> BitsToNat(d, p + k, k + 1) - 1, pos |-> s.pos]

(***************************************************************************)
(* The explored streams.                                                   *)
(***************************************************************************)
\* the low n bits of the uint32_t v, most significant first (\div rounds
\* down and % is nonnegative, so a negative v gives its two's complement)
RECURSIVE NatToBits(_, _)
NatToBits(v, n) ==
  IF n = 0 THEN <<>> ELSE Append(NatToBits(v \div 2, n - 1), v % 2)

RECURSIVE Zeros(_)
Zeros(k) == IF k = 0 THEN <<>> ELSE <<0>> \o Zeros(k - 1)

\* floor(log2(v)) for the uint32_t v >= 1
RECURSIVE Log2(_)
Log2(v) == IF v < 0 THEN 31 ELSE IF v <= 1 THEN 0 ELSE 1 + Log2(v \div 2)

\* the ue(v) codeword of v, as an encoder writes it (H.265 clause 9.2)
EncodeUE(v) == Zeros(Log2(v + 1)) \o NatToBits(v + 1, Log2(v + 1) + 1)

\* the explored streams set at most one of the four extension flags, and
\* sps_extension_4bits only with none of them: OneMore is the values of the
\* next flag
OneMore ==
  IF sps.sps_range_extension_flag + sps.sps_multilayer_extension_flag
       + sps.sps_3d_extension_flag + sps.sps_scc_extension_flag > 0
    THEN {0} ELSE {0, 1}

\* the explored streams are of two kinds: chroma_format_idc 3 with the
\* scaling list and PCM enabled and a log2_min_luma_coding_block_size_minus3
\* of 29 (beyond what H.265 allows), and chroma_format_idc 1 with neither
\* and a coding block size of 8
Profile == IF sps.chroma_format_idc = 3 THEN {1} ELSE {0}

\* the values that the explored streams carry in each syntax element; an
\* element of a list carries a value that depends on its index i
InputValues(f) ==
  CASE f = "sps_video_parameter_set_id" -> {1}
    [] f = "sps_max_sub_layers_minus1" -> {0, 2}
    [] f = "sps_temporal_id_nesting_flag" -> {1}
    [] f = "sps_seq_parameter_set_id" -> {0}
    [] f = "chroma_format_idc" -> {1, 3}
    [] f = "separate_colour_plane_flag" -> {0}
    [] f = "pic_width_in_luma_samples" -> {1920}
    [] f = "pic_height_in_luma_samples" -> {1080}
    [] f = "conformance_window_flag" -> {0, 1}
    [] f = "conf_win_left_offset" -> {0}
    [] f = "conf_win_right_offset" -> {1}
    [] f = "conf_win_top_offset" -> {2}
    [] f = "conf_win_bottom_offset" -> {3}
    [] f = "bit_depth_luma_minus8" -> {0}
    [] f = "bit_depth_chroma_minus8" -> {0}
    [] f = "log2_max_pic_order_cnt_lsb_minus4" -> {1, 29, -4}
    [] f = "sps_sub_layer_ordering_info_present_flag" -> {0, 1}
    [] f = "sps_max_dec_pic_buffering_minus1" -> {3 + i}
    [] f = "sps_max_num_reorder_pics" -> {i}
    [] f = "sps_max_latency_increase_plus1" -> {2 * i}
    [] f = "log2_min_luma_coding_block_size_minus3" ->
         IF sps.chroma_format_idc = 3 THEN {29} ELSE {0}
    [] f = "log2_diff_max_min_luma_coding_block_size" -> {3}
    [] f = "log2_min_luma_transform_block_size_minus2" -> {0}
    [] f = "log2_diff_max_min_luma_transform_block_size" -> {3}
    [] f = "max_transform_hierarchy_depth_inter" -> {1}
    [] f = "max_transform_hierarchy_depth_intra" -> {0}
    [] f = "scaling_list_enabled_flag" -> Profile
    [] f = "sps_scaling_list_data_present_flag" -> {0, 1}
    [] f = "amp_enabled_flag" -> {0}
    [] f = "sample_adaptive_offset_enabled_flag" -> {1}
    [] f = "pcm_enabled_flag" -> Profile
    [] f = "pcm_sample_bit_depth_luma_minus1" -> {7}
    [] f = "pcm_sample_bit_depth_chroma_minus1" -> {6}
    [] f = "log2_min_pcm_luma_coding_block_size_minus3" -> {0}
    [] f = "log2_diff_max_min_pcm_luma_coding_block_size" -> {1}
    [] f = "pcm_loop_filter_disabled_flag" -> {1}
    [] f = "num_short_term_ref_pic_sets" ->
         0..(NUM_SHORT_TERM_REF_PIC_SETS_MAX + 1)
    [] f = "long_term_ref_pics_present_flag" -> {0, 1}
    [] f = "num_long_term_ref_pics_sps" -> 0..MaxLongTermRefPics
    [] f = "lt_ref_pic_poc_lsb_sps" -> {5 + i}
    [] f = "used_by_curr_pic_lt_sps_flag" -> {(i + 1) % 2}
    [] f = "sps_temporal_mvp_enabled_flag" -> {1}
    [] f = "strong_intra_smoothing_enabled_flag" -> {0}
    [] f = "vui_parameters_present_flag" -> {0, 1}
    [] f = "sps_extension_present_flag" -> {0, 1}
    [] f = "sps_range_extension_flag" -> {0, 1}
    [] f = "sps_multilayer_extension_flag" -> OneMore
    [] f = "sps_3d_extension_flag" -> OneMore
    [] f = "sps_scc_extension_flag" -> OneMore
    [] f = "sps_extension_4bits" -> IF OneMore = {0} THEN {0} ELSE {0, 5}
    [] f = "sps_extension_data_flag" -> {0, 1}

\* the u(n) codewords of syntax element f
FixedCodes(f, n) == {NatToBits(v, n) : v \in InputValues(f)}
\* the ue(v) codewords of syntax element f
GolombCodes(f) == {EncodeUE(v) : v \in InputValues(f)}

\* what a buffer can hold at the cursor where one of the codewords is due:
\* the codeword, or the start of it when the buffer (a whole number of
\* bytes) ends inside it
Reveal(codes) ==
  IF closed
    THEN {[d |-> data, c |-> TRUE]}
    ELSE {[d |-> data \o x, c |-> FALSE] : x \in codes}
         \cup {[d |-> data \o SubSeq(x[1], 1, x[2]), c |-> TRUE] :
                 x \in {y \in codes \X (0..7) :
                          y[2] < Len(y[1]) /\ (Len(data) + y[2]) % 8 = 0}}

\* the end of a buffer: up to MaxExtensionData bits, then the RBSP stop bit
\* and zero bits up to the byte boundary; or zero bits only (no stop bit)
RECURSIVE BitStrings(_)
BitStrings(n) ==
  IF n = 0 THEN {<<>>}
  ELSE BitStrings(n - 1) \cup
       {Append(x, b) : x \in {y \in BitStrings(n - 1) : Len(y) = n - 1}, b \in Bit}

Padding(n) == Zeros((8 - (n % 8)) % 8)

Tails(p, m) ==
  {x \o <<1>> \o Padding(p + Len(x) + 1) : x \in BitStrings(m)}
  \cup {Padding(p)}

\* m: the most bits before the stop bit
RevealTail(m) ==
  IF closed THEN {data} ELSE {data \o t : t \in Tails(Len(data), m)}

(***************************************************************************)
(* ParseSps.                                                               *)
(***************************************************************************)
\* auto sps = std::make_shared<SpsState>(): every member value-initialized
SpsInit ==
  [sps_video_parameter_set_id |-> 0,
   sps_max_sub_layers_minus1 |-> 0,
   sps_temporal_id_nesting_flag |-> 0,
   profile_tier_level |-> nullptr,
   sps_seq_parameter_set_id |-> 0,
   chroma_format_idc |-> 0,
   separate_colour_plane_flag |-> 0,
   pic_width_in_luma_samples |-> 0,
   pic_height_in_luma_samples |-> 0,
   conformance_window_flag |-> 0,
   conf_win_left_offset |-> 0,
   conf_win_right_offset |-> 0,
   conf_win_top_offset |-> 0,
   conf_win_bottom_offset |-> 0,
   bit_depth_luma_minus8 |-> 0,
   bit_depth_chroma_minus8 |-> 0,
   log2_max_pic_order_cnt_lsb_minus4 |-> 0,
   sps_sub_layer_ordering_info_present_flag |-> 0,
   sps_max_dec_pic_buffering_minus1 |-> <<>>,
   sps_max_num_reorder_pics |-> <<>>,
   sps_max_latency_increase_plus1 |-> <<>>,
   log2_min_luma_coding_block_size_minus3 |-> 0,
   log2_diff_max_min_luma_coding_block_size |-> 0,
   log2_min_luma_transform_block_size_minus2 |-> 0,
   log2_diff_max_min_luma_transform_block_size |-> 0,
   max_transform_hierarchy_depth_inter |-> 0,
   max_transform_hierarchy_depth_intra |-> 0,
   scaling_list_enabled_flag |-> 0,
   sps_scaling_list_data_present_flag |-> 0,
   amp_enabled_flag |-> 0,
   sample_adaptive_offset_enabled_flag |-> 0,
   pcm_enabled_flag |-> 0,
   pcm_sample_bit_depth_luma_minus1 |-> 0,
   pcm_sample_bit_depth_chroma_minus1 |-> 0,
   log2_min_pcm_luma_coding_block_size_minus3 |-> 0,
   log2_diff_max_min_pcm_luma_coding_block_size |-> 0,
   pcm_loop_filter_disabled_flag |-> 0,
   num_short_term_ref_pic_sets |-> 0,
   st_ref_pic_set |-> <<>>,
   long_term_ref_pics_present_flag |-> 0,
   num_long_term_ref_pics_sps |-> 0,
   lt_ref_pic_poc_lsb_sps |-> <<>>,
   used_by_curr_pic_lt_sps_flag |-> <<>>,
   sps_temporal_mvp_enabled_flag |-> 0,
   strong_intra_smoothing_enabled_flag |-> 0,
   vui_parameters_present_flag |-> 0,
   vui_parameters |-> nullptr,
   sps_extension_present_flag |-> 0,
   sps_range_extension_flag |-> 0,
   sps_multilayer_extension_flag |-> 0,
   sps_3d_extension_flag |-> 0,
   sps_scc_extension_flag |-> 0,
   sps_extension_4bits |-> 0,
   sps_extension_data_flag |-> 0]

\* ParseSps is entered with the cursor at the start of the buffer
Init ==
  /\ data = <<>>
  /\ closed = FALSE
  /\ pos = 0
  /\ pc = "sps_video_parameter_set_id"
  /\ i = 0
  /\ sps = SpsInit
  /\ ret = "pending"
  /\ trace = <<>>
  /\ picSize = <<>>

\* where control goes next, and the loop variable there
Goto(label, idx) == [pc |-> label, i |-> idx, ret |-> "pending"]
\* a return statement
Return(value) == [pc |-> "done", i |-> i, ret |-> value]

\* the record of one read or sub-parser call: syntax element, loop index,
\* cursor before, bits consumed, success, value
Issued(f, idx, r) ==
  [f |-> f, i |-> idx, at |-> pos, n |-> r.pos - pos, ok |-> r.ok, v |-> r.val]

\* the shape of every read in ParseSps, once Read... has returned r:
\*   if (!bit_buffer->Read...(&x, ...)) { return nullptr; }
\* s is sps with x stored, next is where control goes from there (next may
\* refer to sps', the entity with x stored)
Taken(f, b, r, s, next) ==
  /\ data' = b.d
  /\ closed' = b.c
  /\ pos' = r.pos
  /\ trace' = Append(trace, Issued(f, i, r))
  /\ IF r.ok
       THEN /\ sps' = s
            /\ pc' = next.pc
            /\ i' = next.i
            /\ ret' = next.ret
       ELSE /\ sps' = sps
            /\ pc' = Return("nullptr").pc
            /\ i' = Return("nullptr").i
            /\ ret' = Return("nullptr").ret
  /\ picSize' = picSize

\* ReadBits(&(sps->f), n)
ReadBitsField(f, n, next) ==
  /\ pc = f
  /\ \E b \in Reveal(FixedCodes(f, n)) :
       LET r == ReadBits(b.d, pos, n)
       IN Taken(f, b, r, [sps EXCEPT ![f] = r.val], next)

\* ReadExponentialGolomb(&(sps->f))
ReadGolombField(f, next) ==
  /\ pc = f
  /\ \E b \in Reveal(GolombCodes(f)) :
       LET r == ReadExponentialGolomb(b.d, pos)
       IN Taken(f, b, r, [sps EXCEPT ![f] = r.val], next)

\* ReadExponentialGolomb(&golomb_tmp); sps->f.push_back(golomb_tmp)
ReadGolombElement(f, next) ==
  /\ pc = f
  /\ \E b \in Reveal(GolombCodes(f)) :
       LET r == ReadExponentialGolomb(b.d, pos)
       IN Taken(f, b, r, [sps EXCEPT ![f] = Append(@, r.val)], next)

\* ReadBits(&bits_tmp, n); sps->f.push_back(bits_tmp)
ReadBitsElement(f, n, next) ==
  /\ pc = f
  /\ \E b \in Reveal(FixedCodes(f, n)) :
       LET r == ReadBits(b.d, pos, n)
       IN Taken(f, b, r, [sps EXCEPT ![f] = Append(@, r.val)], next)

\* what a call of one of the three sub-structure parsers can do on the
\* shared bit buffer (spec, section 6): consume the bits of the
\* sub-structure and return it ("ok"), or return nullptr, for a failure of
\* its own ("fail") or because it finds the buffer to end ("end")
SubParserOutcomes ==
  {o \in [n : {SubStructureBits}, out : {"ok", "fail", "end"}] :
     o.out = "end" => (pos + o.n) % 8 = 0}

\* the shape of the three calls in ParseSps, once the parser has returned
\* with outcome o:   x = Parse...(bit_buffer, ...);   x is not tested
\* s is sps with x stored, next is where control goes from there
Called(f, o, s, next) ==
  /\ data' = data \o Zeros(o.n)
  /\ closed' = (o.out = "end")
  /\ pos' = pos + o.n
  /\ trace' = Append(trace, Issued(f, i, [ok |-> o.out = "ok", val |-> 0,
                                          pos |-> pos + o.n]))
  /\ sps' = s
  /\ pc' = next.pc
  /\ i' = next.i
  /\ ret' = next.ret
  /\ picSize' = picSize

\* what the call returns: the sub-structure obj, or nullptr
Returned(o, obj) == IF o.out = "ok" THEN Ptr(obj) ELSE nullptr

\* lines 48-51
sps_video_parameter_set_id ==
  ReadBitsField("sps_video_parameter_set_id", 4,
                Goto("sps_max_sub_layers_minus1", i))

\* lines 53-56
sps_max_sub_layers_minus1 ==
  ReadBitsField("sps_max_sub_layers_minus1", 3,
                Goto("sps_temporal_id_nesting_flag", i))

\* lines 58-61
sps_temporal_id_nesting_flag ==
  ReadBitsField("sps_temporal_id_nesting_flag", 1,
                Goto("profile_tier_level", i))

\* lines 63-65: ParseProfileTierLevel(bit_buffer, true, sps_max_sub_layers_minus1)
profile_tier_level ==
  /\ pc = "profile_tier_level"
  /\ \E o \in SubParserOutcomes :
       LET p == Returned(o, [profilePresentFlag |-> TRUE,
                             maxNumSubLayersMinus1 |->
                               sps.sps_max_sub_layers_minus1])
       IN Called("profile_tier_level", o,
                 [sps EXCEPT !.profile_tier_level = p],
                 Goto("sps_seq_parameter_set_id", i))

\* lines 67-70
sps_seq_parameter_set_id ==
  ReadGolombField("sps_seq_parameter_set_id",
                  Goto("chroma_format_idc", i))

\* lines 72-76
chroma_format_idc ==
  ReadGolombField("chroma_format_idc",
                  IF sps'.chroma_format_idc = 3
                  THEN Goto("separate_colour_plane_flag", i)
                  ELSE Goto("pic_width_in_luma_samples", i))

\* lines 77-81
separate_colour_plane_flag ==
  ReadBitsField("separate_colour_plane_flag", 1,
                Goto("pic_width_in_luma_samples", i))

\* lines 83-86
pic_width_in_luma_samples ==
  ReadGolombField("pic_width_in_luma_samples",
                  Goto("pic_height_in_luma_samples", i))

\* lines 88-91
pic_height_in_luma_samples ==
  ReadGolombField("pic_height_in_luma_samples",
                  Goto("conformance_window_flag", i))

\* conformance_window_flag with the offsets read whatever the flag
conformance_window_flag_not_tested ==
  ReadBitsField("conformance_window_flag", 1,
                Goto("conf_win_left_offset", i))

\* lines 93-98
conformance_window_flag ==
  ReadBitsField("conformance_window_flag", 1,
                IF sps'.conformance_window_flag # 0
                  THEN Goto("conf_win_left_offset", i)
                  ELSE Goto("bit_depth_luma_minus8", i))

\* lines 99-102
conf_win_left_offset ==
  ReadGolombField("conf_win_left_offset",
                  Goto("conf_win_right_offset", i))

\* lines 103-106
conf_win_right_offset ==
  ReadGolombField("conf_win_right_offset",
                  Goto("conf_win_top_offset", i))

\* lines 107-110
conf_win_top_offset ==
  ReadGolombField("conf_win_top_offset",
                  Goto("conf_win_bottom_offset", i))

\* lines 111-115
conf_win_bottom_offset ==
  ReadGolombField("conf_win_bottom_offset",
                  Goto("bit_depth_luma_minus8", i))

\* lines 117-120
bit_depth_luma_minus8 ==
  ReadGolombField("bit_depth_luma_minus8",
                  Goto("bit_depth_chroma_minus8", i))

\* lines 121-124
bit_depth_chroma_minus8 ==
  ReadGolombField("bit_depth_chroma_minus8",
                  Goto("log2_max_pic_order_cnt_lsb_minus4", i))

\* lines 125-129
log2_max_pic_order_cnt_lsb_minus4 ==
  ReadGolombField("log2_max_pic_order_cnt_lsb_minus4",
                  Goto("sps_sub_layer_ordering_info_present_flag", i))

\* the for statement of lines 136-139, entered with loop variable idx
SubLayerLoop(s, idx) ==
  IF idx <= s.sps_max_sub_layers_minus1
    THEN Goto("sps_max_dec_pic_buffering_minus1", idx)
    ELSE Goto("log2_min_luma_coding_block_size_minus3", idx)

\* sps_sub_layer_ordering_info_present_flag with the loop started at 0
\* whatever the flag
sps_sub_layer_ordering_info_present_flag_from_0 ==
  ReadBitsField("sps_sub_layer_ordering_info_present_flag", 1,
                SubLayerLoop(sps', 0))

\* lines 130-139: the flag, then the loop's initialisation and first test
sps_sub_layer_ordering_info_present_flag ==
  ReadBitsField("sps_sub_layer_ordering_info_present_flag", 1,
                  SubLayerLoop(sps',
                    IF sps'.sps_sub_layer_ordering_info_present_flag # 0
                      THEN 0 ELSE sps'.sps_max_sub_layers_minus1))

\* lines 140-144
sps_max_dec_pic_buffering_minus1 ==
  ReadGolombElement("sps_max_dec_pic_buffering_minus1",
                    Goto("sps_max_num_reorder_pics", i))

\* lines 145-149
sps_max_num_reorder_pics ==
  ReadGolombElement("sps_max_num_reorder_pics",
                    Goto("sps_max_latency_increase_plus1", i))

\* lines 150-155: the read, then i++ and the loop's test
sps_max_latency_increase_plus1 ==
  ReadGolombElement("sps_max_latency_increase_plus1",
                    SubLayerLoop(sps', i + 1))

\* lines 157-161
log2_min_luma_coding_block_size_minus3 ==
  ReadGolombField("log2_min_luma_coding_block_size_minus3",
                  Goto("log2_diff_max_min_luma_coding_block_size", i))

\* lines 163-167
log2_diff_max_min_luma_coding_block_size ==
  ReadGolombField("log2_diff_max_min_luma_coding_block_size",
                  Goto("log2_min_luma_transform_block_size_minus2", i))

\* lines 169-173
log2_min_luma_transform_block_size_minus2 ==
  ReadGolombField("log2_min_luma_transform_block_size_minus2",
                  Goto("log2_diff_max_min_luma_transform_block_size", i))

\* lines 175-179
log2_diff_max_min_luma_transform_block_size ==
  ReadGolombField("log2_diff_max_min_luma_transform_block_size",
                  Goto("max_transform_hierarchy_depth_inter", i))

\* lines 181-185
max_transform_hierarchy_depth_inter ==
  ReadGolombField("max_transform_hierarchy_depth_inter",
                  Goto("max_transform_hierarchy_depth_intra", i))

\* lines 187-191
max_transform_hierarchy_depth_intra ==
  ReadGolombField("max_transform_hierarchy_depth_intra",
                  Goto("scaling_list_enabled_flag", i))

\* lines 193-198
scaling_list_enabled_flag ==
  ReadBitsField("scaling_list_enabled_flag", 1,
                IF sps'.scaling_list_enabled_flag # 0
                  THEN Goto("sps_scaling_list_data_present_flag", i)
                  ELSE Goto("amp_enabled_flag", i))

\* sps_scaling_list_data_present_flag with scaling_list_data() skipped
\* instead of refused
sps_scaling_list_data_present_flag_skipped ==
  ReadBitsField("sps_scaling_list_data_present_flag", 1,
                Goto("amp_enabled_flag", i))

\* lines 199-211: scaling_list_data() is not implemented: return nullptr
sps_scaling_list_data_present_flag ==
  ReadBitsField("sps_scaling_list_data_present_flag", 1,
                IF sps'.sps_scaling_list_data_present_flag # 0
                  THEN Return("nullptr")
                  ELSE Goto("amp_enabled_flag", i))

\* lines 213-216
amp_enabled_flag ==
  ReadBitsField("amp_enabled_flag", 1,
                Goto("sample_adaptive_offset_enabled_flag", i))

\* lines 218-221
sample_adaptive_offset_enabled_flag ==
  ReadBitsField("sample_adaptive_offset_enabled_flag", 1,
                Goto("pcm_enabled_flag", i))

\* lines 223-228
pcm_enabled_flag ==
  ReadBitsField("pcm_enabled_flag", 1,
                IF sps'.pcm_enabled_flag # 0
                  THEN Goto("pcm_sample_bit_depth_luma_minus1", i)
                  ELSE Goto("num_short_term_ref_pic_sets", i))

\* lines 229-232
pcm_sample_bit_depth_luma_minus1 ==
  ReadBitsField("pcm_sample_bit_depth_luma_minus1", 4,
                Goto("pcm_sample_bit_depth_chroma_minus1", i))

\* lines 234-237
pcm_sample_bit_depth_chroma_minus1 ==
  ReadBitsField("pcm_sample_bit_depth_chroma_minus1", 4,
                Goto("log2_min_pcm_luma_coding_block_size_minus3", i))

\* lines 239-243
log2_min_pcm_luma_coding_block_size_minus3 ==
  ReadGolombField("log2_min_pcm_luma_coding_block_size_minus3",
                  Goto("log2_diff_max_min_pcm_luma_coding_block_size", i))

\* lines 245-249
log2_diff_max_min_pcm_luma_coding_block_size ==
  ReadGolombField("log2_diff_max_min_pcm_luma_coding_block_size",
                  Goto("pcm_loop_filter_disabled_flag", i))

\* lines 251-255
pcm_loop_filter_disabled_flag ==
  ReadBitsField("pcm_loop_filter_disabled_flag", 1,
                Goto("num_short_term_ref_pic_sets", i))

\* the for statement of line 272, entered with loop variable idx
StRefPicSetLoop(s, idx) ==
  IF idx < s.num_short_term_ref_pic_sets
    THEN Goto("st_ref_pic_set", idx)
    ELSE Goto("long_term_ref_pics_present_flag", idx)

\* num_short_term_ref_pic_sets without the test against the maximum
num_short_term_ref_pic_sets_unbounded ==
  ReadGolombField("num_short_term_ref_pic_sets",
                  StRefPicSetLoop(sps', 0))

\* lines 257-272: the count, its bound, then the loop's initialisation
num_short_term_ref_pic_sets ==
  ReadGolombField("num_short_term_ref_pic_sets",
                  IF sps'.num_short_term_ref_pic_sets >
                                  NUM_SHORT_TERM_REF_PIC_SETS_MAX
                  THEN Return("nullptr")
                               ELSE StRefPicSetLoop(sps', 0))

\* lines 273-276: push_back(ParseStRefPicSet(bit_buffer, i,
\* num_short_term_ref_pic_sets)), then i++ and the loop's test.  In the
\* explored streams the sets at the even indices are well formed and those
\* at the odd indices are not
st_ref_pic_set ==
  /\ pc = "st_ref_pic_set"
  /\ \E o \in {x \in SubParserOutcomes : (x.out = "ok") = (i % 2 = 0)} :
       LET p == Returned(o, [stRpsIdx |-> i,
                             num_short_term_ref_pic_sets |->
                               sps.num_short_term_ref_pic_sets])
       IN Called("st_ref_pic_set", o,
                 [sps EXCEPT !.st_ref_pic_set = Append(@, p)],
                 StRefPicSetLoop(sps, i + 1))

\* lines 278-283
long_term_ref_pics_present_flag ==
  ReadBitsField("long_term_ref_pics_present_flag", 1,
                IF sps'.long_term_ref_pics_present_flag # 0
                  THEN Goto("num_long_term_ref_pics_sps", i)
                  ELSE Goto("sps_temporal_mvp_enabled_flag", i))

\* LongTermLoop with i <= num_long_term_ref_pics_sps as the test
LongTermLoop_inclusive(s, idx) ==
  IF idx <= s.num_long_term_ref_pics_sps
    THEN Goto("lt_ref_pic_poc_lsb_sps", idx)
    ELSE Goto("sps_temporal_mvp_enabled_flag", idx)

\* the for statement of line 290, entered with loop variable idx
LongTermLoop(s, idx) ==
  IF idx < s.num_long_term_ref_pics_sps
    THEN Goto("lt_ref_pic_poc_lsb_sps", idx)
    ELSE Goto("sps_temporal_mvp_enabled_flag", idx)

\* lines 284-290: the count, then the loop's initialisation and first test
num_long_term_ref_pics_sps ==
  ReadGolombField("num_long_term_ref_pics_sps",
                  LongTermLoop(sps', 0))

\* lines 291-296: u(v) of log2_max_pic_order_cnt_lsb_minus4 + 4 bits
lt_ref_pic_poc_lsb_sps ==
  ReadBitsElement("lt_ref_pic_poc_lsb_sps",
                  sps.log2_max_pic_order_cnt_lsb_minus4 + 4,
                  Goto("used_by_curr_pic_lt_sps_flag", i))

\* lines 298-303: the read, then i++ and the loop's test
used_by_curr_pic_lt_sps_flag ==
  ReadBitsElement("used_by_curr_pic_lt_sps_flag", 1,
                  LongTermLoop(sps', i + 1))

\* lines 306-309
sps_temporal_mvp_enabled_flag ==
  ReadBitsField("sps_temporal_mvp_enabled_flag", 1,
                Goto("strong_intra_smoothing_enabled_flag", i))

\* lines 311-314
strong_intra_smoothing_enabled_flag ==
  ReadBitsField("strong_intra_smoothing_enabled_flag", 1,
                Goto("vui_parameters_present_flag", i))

\* lines 316-321
vui_parameters_present_flag ==
  ReadBitsField("vui_parameters_present_flag", 1,
                IF sps'.vui_parameters_present_flag # 0
                  THEN Goto("vui_parameters", i)
                  ELSE Goto("sps_extension_present_flag", i))

\* lines 322-325: ParseVuiParameters(bit_buffer)
vui_parameters ==
  /\ pc = "vui_parameters"
  /\ \E o \in SubParserOutcomes :
       Called("vui_parameters", o,
              [sps EXCEPT !.vui_parameters = Returned(o, [vui |-> TRUE])],
              Goto("sps_extension_present_flag", i))

\* sps_extension_present_flag with the result of ReadBits not tested
sps_extension_present_flag_unchecked ==
  /\ pc = "sps_extension_present_flag"
  /\ \E b \in Reveal(FixedCodes("sps_extension_present_flag", 1)) :
       LET r == ReadBits(b.d, pos, 1)
           s == IF r.ok THEN [sps EXCEPT !.sps_extension_present_flag = r.val]
                        ELSE sps
           next == IF s.sps_extension_present_flag # 0
                     THEN Goto("sps_range_extension_flag", i)
                     ELSE Goto("sps_extension", i)
       IN /\ data' = b.d
          /\ closed' = b.c
          /\ pos' = r.pos
          /\ trace' = Append(trace, Issued("sps_extension_present_flag", i, r))
          /\ sps' = s
          /\ pc' = next.pc
          /\ i' = next.i
          /\ ret' = next.ret
  /\ picSize' = picSize

\* lines 327-332
sps_extension_present_flag ==
  ReadBitsField("sps_extension_present_flag", 1,
                IF sps'.sps_extension_present_flag # 0
                  THEN Goto("sps_range_extension_flag", i)
                  ELSE Goto("sps_extension", i))

\* lines 333-336
sps_range_extension_flag ==
  ReadBitsField("sps_range_extension_flag", 1,
                Goto("sps_multilayer_extension_flag", i))

\* lines 338-341
sps_multilayer_extension_flag ==
  ReadBitsField("sps_multilayer_extension_flag", 1,
                Goto("sps_3d_extension_flag", i))

\* lines 343-346
sps_3d_extension_flag ==
  ReadBitsField("sps_3d_extension_flag", 1,
                Goto("sps_scc_extension_flag", i))

\* lines 348-351
sps_scc_extension_flag ==
  ReadBitsField("sps_scc_extension_flag", 1,
                Goto("sps_extension_4bits", i))

\* lines 353-357
sps_extension_4bits ==
  ReadBitsField("sps_extension_4bits", 4,
                Goto("sps_extension", i))

\* sps_extension without the test of sps_3d_extension_flag
sps_extension_without_3d ==
  /\ pc = "sps_extension"
  /\ LET next == IF sps.sps_range_extension_flag # 0 THEN Return("nullptr")
                 ELSE IF sps.sps_multilayer_extension_flag # 0 THEN Return("nullptr")
                 ELSE IF sps.sps_scc_extension_flag # 0 THEN Return("nullptr")
                 ELSE IF sps.sps_extension_4bits # 0 THEN Goto("more_rbsp_data", i)
                 ELSE Goto("rbsp_trailing_bits", i)
     IN /\ pc' = next.pc
        /\ i' = next.i
        /\ ret' = next.ret
  /\ UNCHANGED <<data, closed, pos, sps, trace, picSize>>

\* lines 359-394: the four extensions are not implemented: return nullptr;
\* then the test of sps_extension_4bits
sps_extension ==
  /\ pc = "sps_extension"
  /\ LET next == IF sps.sps_range_extension_flag # 0 THEN Return("nullptr")
                 ELSE IF sps.sps_multilayer_extension_flag # 0 THEN Return("nullptr")
                 ELSE IF sps.sps_3d_extension_flag # 0 THEN Return("nullptr")
                 ELSE IF sps.sps_scc_extension_flag # 0 THEN Return("nullptr")
                 ELSE IF sps.sps_extension_4bits # 0 THEN Goto("more_rbsp_data", i)
                 ELSE Goto("rbsp_trailing_bits", i)
     IN /\ pc' = next.pc
        /\ i' = next.i
        /\ ret' = next.ret
  /\ UNCHANGED <<data, closed, pos, sps, trace, picSize>>

\* index of the last one bit of d, 0 when d has none
RECURSIVE LastOne(_)
LastOne(d) ==
  IF d = <<>> THEN 0
  ELSE IF d[Len(d)] = 1 THEN Len(d)
  ELSE LastOne(SubSeq(d, 1, Len(d) - 1))

\* more_rbsp_data(): TRUE when a bit remains before the RBSP stop bit,
\* which is the last one bit of the buffer (spec, section 4.1)
more_rbsp_data(d, p) == p + 1 < LastOne(d)

\* rbsp_trailing_bits(): the stop bit, then zero bits up to the byte
\* boundary; the cursor it leaves
RECURSIVE AlignmentZeroBits(_, _)
AlignmentZeroBits(d, p) ==
  IF p % 8 = 0 \/ p >= Len(d) \/ d[p + 1] # 0 THEN p
  ELSE AlignmentZeroBits(d, p + 1)

rbsp_trailing_bits(d, p) ==
  IF p >= Len(d) \/ d[p + 1] # 1 THEN p ELSE AlignmentZeroBits(d, p + 1)

\* the while loop of line 395 without its test: while (true)
sps_extension_data_loop_untested ==
  /\ pc = "more_rbsp_data"
  /\ \E d \in RevealTail(MaxExtensionData) :
       /\ data' = d
       /\ closed' = TRUE
       /\ pc' = "sps_extension_data_flag"
  /\ UNCHANGED <<pos, i, sps, ret, trace, picSize>>

\* line 395: the test of the while loop
sps_extension_data_loop ==
  /\ pc = "more_rbsp_data"
  /\ \E d \in RevealTail(MaxExtensionData) :
       /\ data' = d
       /\ closed' = TRUE
       /\ pc' = IF more_rbsp_data(d, pos)
                  THEN "sps_extension_data_flag" ELSE "rbsp_trailing_bits"
  /\ UNCHANGED <<pos, i, sps, ret, trace, picSize>>

\* lines 396-400
sps_extension_data_flag ==
  ReadBitsField("sps_extension_data_flag", 1,
                Goto("more_rbsp_data", i))

\* lines 403-405: rbsp_trailing_bits(bit_buffer); return sps
return_sps ==
  /\ pc = "rbsp_trailing_bits"
  /\ \E d \in RevealTail(0) :
       /\ data' = d
       /\ closed' = TRUE
       /\ pos' = rbsp_trailing_bits(d, pos)
  /\ pc' = Return("sps").pc
  /\ ret' = Return("sps").ret
  /\ UNCHANGED <<i, sps, trace, picSize>>

(***************************************************************************)
(* SpsState::getPicSizeInCtbsY, lines 670-700.                             *)
(***************************************************************************)
\* uint32_t MinCbLog2SizeY + log2_diff_max_min_luma_coding_block_size, the
\* shift amount of line 680
CtbLog2SizeY(s) ==
  LET MinCbLog2SizeY == s.log2_min_luma_coding_block_size_minus3 + 3
  IN MinCbLog2SizeY + s.log2_diff_max_min_luma_coding_block_size

\* 1 << n on the 32-bit int 1: undefined for n >= 32, where a build that
\* shifts with the machine instruction yields 1 << (n % 32) (the count is
\* masked) or 0 (the bits are shifted out)
ShiftLeftOne(n) ==
  IF 0 <= n /\ n < 32 THEN {Pow2(n)} ELSE {Pow2(n % 32), 0}

\* x / y on uint32_t: undefined for y = 0, where the division traps
\* (SIGFPE) or yields 0
Divide(x, y) ==
  IF y # 0 THEN {[trap |-> FALSE, val |-> x \div y]}
  ELSE {[trap |-> TRUE, val |-> 0], [trap |-> FALSE, val |-> 0]}

\* the outcomes of one call: a trap, or the value returned.  std::ceil of
\* the quotient converted to double is the quotient itself
getPicSizeInCtbsY(s) ==
  {[trap |-> PicWidthInCtbsY.trap \/ PicHeightInCtbsY.trap,
    val |-> PicWidthInCtbsY.val * PicHeightInCtbsY.val] :
     <<PicWidthInCtbsY, PicHeightInCtbsY>> \in
       UNION {Divide(s.pic_width_in_luma_samples, CtbSizeY)
                \X Divide(s.pic_height_in_luma_samples, CtbSizeY) :
              CtbSizeY \in ShiftLeftOne(CtbLog2SizeY(s))}}

\* the caller applies getPicSizeInCtbsY to the entity that was returned;
\* a trap ends the process
call_getPicSizeInCtbsY ==
  /\ ret = "sps"
  /\ pc = "done"
  /\ picSize = <<>>
  /\ \E r \in getPicSizeInCtbsY(sps) :
       IF r.trap THEN pc' = "SIGFPE" /\ picSize' = picSize
                 ELSE pc' = pc /\ picSize' = <<r.val>>
  /\ UNCHANGED <<data, closed, pos, i, sps, ret, trace>>

Next ==
  \/ sps_video_parameter_set_id
  \/ sps_max_sub_layers_minus1
  \/ sps_temporal_id_nesting_flag
  \/ profile_tier_level
  \/ sps_seq_parameter_set_id
  \/ chroma_format_idc
  \/ separate_colour_plane_flag
  \/ pic_width_in_luma_samples
  \/ pic_height_in_luma_samples
  \/ conformance_window_flag
  \/ conf_win_left_offset
  \/ conf_win_right_offset
  \/ conf_win_top_offset
  \/ conf_win_bottom_offset
  \/ bit_depth_luma_minus8
  \/ bit_depth_chroma_minus8
  \/ log2_max_pic_order_cnt_lsb_minus4
  \/ sps_sub_layer_ordering_info_present_flag
  \/ sps_max_dec_pic_buffering_minus1
  \/ sps_max_num_reorder_pics
  \/ sps_max_latency_increase_plus1
  \/ log2_min_luma_coding_block_size_minus3
  \/ log2_diff_max_min_luma_coding_block_size
  \/ log2_min_luma_transform_block_size_minus2
  \/ log2_diff_max_min_luma_transform_block_size
  \/ max_transform_hierarchy_depth_inter
  \/ max_transform_hierarchy_depth_intra
  \/ scaling_list_enabled_flag
  \/ sps_scaling_list_data_present_flag
  \/ amp_enabled_flag
  \/ sample_adaptive_offset_enabled_flag
  \/ pcm_enabled_flag
  \/ pcm_sample_bit_depth_luma_minus1
  \/ pcm_sample_bit_depth_chroma_minus1
  \/ log2_min_pcm_luma_coding_block_size_minus3
  \/ log2_diff_max_min_pcm_luma_coding_block_size
  \/ pcm_loop_filter_disabled_flag
  \/ num_short_term_ref_pic_sets
  \/ st_ref_pic_set
  \/ long_term_ref_pics_present_flag
  \/ num_long_term_ref_pics_sps
  \/ lt_ref_pic_poc_lsb_sps
  \/ used_by_curr_pic_lt_sps_flag
  \/ sps_temporal_mvp_enabled_flag
  \/ strong_intra_smoothing_enabled_flag
  \/ vui_parameters_present_flag
  \/ vui_parameters
  \/ sps_extension_present_flag
  \/ sps_range_extension_flag
  \/ sps_multilayer_extension_flag
  \/ sps_3d_extension_flag
  \/ sps_scc_extension_flag
  \/ sps_extension_4bits
  \/ sps_extension
  \/ sps_extension_data_loop
  \/ sps_extension_data_flag
  \/ return_sps

Spec == Init /\ [][Next]_vars

(***************************************************************************)
(* getPicSizeInCtbsY on its own: the caller holds an entity whose four     *)
(* geometry members were decoded from the stream, and calls the method.    *)
(***************************************************************************)
GeomLumaSamples == {0, 1, 8, 63, 64, 65, 127, 128, 1080, 1920}
GeomLog2MinMinus3 == {0, 1, 2, 29}
GeomLog2Diff == {0, 1, 2, 3}

GeomInit ==
  /\ data = <<>>
  /\ closed = FALSE
  /\ pos = 0
  /\ pc = "done"
  /\ i = 0
  /\ ret = "sps"
  /\ trace = <<>>
  /\ picSize = <<>>
  /\ \E w \in GeomLumaSamples, h \in GeomLumaSamples,
        a \in GeomLog2MinMinus3, b \in GeomLog2Diff :
       sps = [SpsInit EXCEPT
                !.pic_width_in_luma_samples = w,
                !.pic_height_in_luma_samples = h,
                !.log2_min_luma_coding_block_size_minus3 = a,
                !.log2_diff_max_min_luma_coding_block_size = b]

GeomNext == call_getPicSizeInCtbsY

GeomSpec == GeomInit /\ [][GeomNext]_vars

(***************************************************************************)
(* Properties.                                                             *)
(***************************************************************************)
SubParsers == {"profile_tier_level", "st_ref_pic_set", "vui_parameters"}

\* the reads and calls ParseSps has issued for the syntax elements in fs
Issues(fs) == SelectSeq(trace, LAMBDA e : e.f \in fs)

\* the last thing ParseSps did was the k-th read or call, and it returned
\* nullptr right after it
ReturnedNullAt(k) == k = Len(trace) /\ pc = "done" /\ ret = "nullptr"

\* C1: when a ReadBits or ReadExponentialGolomb that ParseSps issues itself
\* fails, ParseSps returns nullptr and issues no further read; an entity is
\* returned only when no such read failed and the buffer reached through
\* the last mandatory field, sps_extension_present_flag.
C1_AllOrNothingOnTruncation ==
  /\ \A k \in 1..Len(trace) :
       (trace[k].f \notin SubParsers /\ ~trace[k].ok) =>
         ReturnedNullAt(k)
  /\ ret = "sps" =>
       \E k \in 1..Len(trace) :
         /\ trace[k].f = "sps_extension_present_flag"
         /\ trace[k].ok
         /\ trace[k].at + 1 <= Len(data)

\* the buffer ends before sps_extension_present_flag: its read fails
C1_Witness ==
  /\ trace # <<>>
  /\ trace[Len(trace)].f = "sps_extension_present_flag"
  /\ ~trace[Len(trace)].ok
  /\ ret = "nullptr"

\* C2: getPicSizeInCtbsY returns Ceil(width / CtbSizeY) * Ceil(height /
\* CtbSizeY) with the ceiling of the real quotient, for every width and
\* height, multiples of CtbSizeY or not (1920 x 1080 at CtbSizeY 64: 510).
CeilDiv(a, b) == (a + b - 1) \div b

C2_PicSizeInCtbsYIsCeiling ==
  (picSize # <<>> /\ CtbLog2SizeY(sps) < 32) =>
    LET CtbSizeY == Pow2(sps.log2_min_luma_coding_block_size_minus3 + 3
                         + sps.log2_diff_max_min_luma_coding_block_size)
    IN picSize[1] = CeilDiv(sps.pic_width_in_luma_samples, CtbSizeY)
                    * CeilDiv(sps.pic_height_in_luma_samples, CtbSizeY)

\* C3: a num_short_term_ref_pic_sets above NUM_SHORT_TERM_REF_PIC_SETS_MAX
\* makes ParseSps return nullptr at once, with no call of the set parser
\* and no further bit read; a returned entity has a count within the
\* maximum and exactly that many sets, set j the result of the call with
\* index j and the count, the calls made in increasing order of the index.
C3_ShortTermRefPicSetCount ==
  LET calls == Issues({"st_ref_pic_set"}) IN
  /\ \A k \in 1..Len(trace) :
       (/\ trace[k].f = "num_short_term_ref_pic_sets"
        /\ trace[k].ok
        /\ trace[k].v > NUM_SHORT_TERM_REF_PIC_SETS_MAX) =>
         /\ ReturnedNullAt(k)
         /\ pos = trace[k].at + trace[k].n
         /\ calls = <<>>
  /\ ret = "sps" =>
       /\ sps.num_short_term_ref_pic_sets <= NUM_SHORT_TERM_REF_PIC_SETS_MAX
       /\ Len(sps.st_ref_pic_set) = sps.num_short_term_ref_pic_sets
       /\ Len(calls) = sps.num_short_term_ref_pic_sets
       /\ \A j \in 1..Len(calls) :
            /\ calls[j].i = j - 1
            /\ sps.st_ref_pic_set[j] =
                 IF calls[j].ok
                   THEN Ptr([stRpsIdx |-> j - 1,
                             num_short_term_ref_pic_sets |->
                               sps.num_short_term_ref_pic_sets])
                   ELSE nullptr

\* the count read is above the maximum
C3_Witness ==
  /\ trace # <<>>
  /\ trace[Len(trace)].f = "num_short_term_ref_pic_sets"
  /\ trace[Len(trace)].ok
  /\ trace[Len(trace)].v > NUM_SHORT_TERM_REF_PIC_SETS_MAX
  /\ ret = "nullptr"

\* C4: every entity ParseSps returns holds a profile/tier/level
\* sub-structure: when ParseProfileTierLevel returns nullptr, so does
\* ParseSps.
C4_ProfileTierLevelPresent ==
  ret = "sps" => sps.profile_tier_level # nullptr

\* C5: in every entity ParseSps returns, vui_parameters is non-null exactly
\* when vui_parameters_present_flag is 1: ParseVuiParameters is called
\* exactly when the flag is 1, and when it returns nullptr so does ParseSps.
C5_VuiPresentIffFlag ==
  ret = "sps" =>
    /\ (sps.vui_parameters # nullptr) <=> (sps.vui_parameters_present_flag = 1)
    /\ (Issues({"vui_parameters"}) # <<>>) <=> (sps.vui_parameters_present_flag = 1)

\* C6: when scaling_list_enabled_flag is 1 and
\* sps_scaling_list_data_present_flag is read as 1, ParseSps returns
\* nullptr and reads no bit after that flag, whatever the buffer holds
\* after it.
C6_ScalingListDataRefused ==
  \A k \in 1..Len(trace) :
    (/\ trace[k].f = "sps_scaling_list_data_present_flag"
     /\ trace[k].ok
     /\ trace[k].v = 1) =>
      /\ sps.scaling_list_enabled_flag = 1
      /\ ReturnedNullAt(k)
      /\ pos = trace[k].at + 1

C6_Witness ==
  /\ trace # <<>>
  /\ trace[Len(trace)].f = "sps_scaling_list_data_present_flag"
  /\ trace[Len(trace)].v = 1
  /\ sps.sps_scaling_list_data_present_flag = 1
  /\ ret = "nullptr"

\* C7: with sps_extension_present_flag 1, any one of the four extension
\* flags being 1 makes ParseSps return nullptr; with
\* sps_extension_present_flag 0, none of the four flags nor
\* sps_extension_4bits is read and ParseSps returns the entity.
ExtensionFlags ==
  {"sps_range_extension_flag", "sps_multilayer_extension_flag",
   "sps_3d_extension_flag", "sps_scc_extension_flag"}

C7_ExtensionsRefused ==
  /\ (/\ pc = "done"
      /\ sps.sps_extension_present_flag = 1
      /\ \E f \in ExtensionFlags : sps[f] = 1) => ret = "nullptr"
  /\ \A k \in 1..Len(trace) :
       (/\ trace[k].f = "sps_extension_present_flag"
        /\ trace[k].ok
        /\ trace[k].v = 0) =>
         /\ \A j \in (k + 1)..Len(trace) :
              trace[j].f \notin ExtensionFlags \cup {"sps_extension_4bits"}
         /\ \A f \in ExtensionFlags : sps[f] = 0
         /\ pc = "done" => ret = "sps"

\* sps_3d_extension_flag alone is 1
C7_Witness ==
  /\ pc = "done"
  /\ sps.sps_extension_present_flag = 1
  /\ sps.sps_3d_extension_flag = 1
  /\ sps.sps_range_extension_flag = 0
  /\ sps.sps_multilayer_extension_flag = 0
  /\ Issues({"sps_extension_4bits"}) # <<>>
  /\ trace[Len(trace)].ok
  /\ ret = "nullptr"

\* C8: when conformance_window_flag is read as 0, no bit is consumed for
\* the four offsets (the next read is bit_depth_luma_minus8, at the bit
\* after the flag), no offset is stored in the entity, and the entity's
\* flag 0 tells the absent offsets from offsets present and zero; when it
\* is read as 1, four Exponential-Golomb codes are read, in the order
\* left, right, top, bottom, each stored in its member.
ConformanceWindowOffsets ==
  <<"conf_win_left_offset", "conf_win_right_offset",
    "conf_win_top_offset", "conf_win_bottom_offset">>

C8_ConformanceWindow ==
  \A k \in 1..Len(trace) :
    (trace[k].f = "conformance_window_flag" /\ trace[k].ok) =>
      /\ sps.conformance_window_flag = trace[k].v
      /\ trace[k].v = 0 =>
           /\ Issues({ConformanceWindowOffsets[m] : m \in 1..4}) = <<>>
           /\ \A m \in 1..4 : sps[ConformanceWindowOffsets[m]] = 0
           /\ Len(trace) > k =>
                /\ trace[k + 1].f = "bit_depth_luma_minus8"
                /\ trace[k + 1].at = trace[k].at + 1
      /\ trace[k].v = 1 =>
           /\ \A m \in 1..4 :
                Len(trace) >= k + m =>
                  /\ trace[k + m].f = ConformanceWindowOffsets[m]
                  /\ trace[k + m].at = trace[k + m - 1].at + trace[k + m - 1].n
                  /\ trace[k + m].ok =>
                       /\ trace[k + m].n = Len(EncodeUE(trace[k + m].v))
                       /\ sps[ConformanceWindowOffsets[m]] = trace[k + m].v
           /\ Len(trace) >= k + 5 => trace[k + 5].f = "bit_depth_luma_minus8"
           /\ ret = "sps" => Len(trace) >= k + 5

\* an entity returned for a stream whose conformance_window_flag is 0
C8_Witness ==
  /\ ret = "sps"
  /\ sps.conformance_window_flag = 0
  /\ Issues({"conformance_window_flag"}) # <<>>
  /\ Issues({"bit_depth_luma_minus8"}) # <<>>

\* C9: in a returned entity the three per-sub-layer lists have one length,
\* sps_max_sub_layers_minus1 + 1 when
\* sps_sub_layer_ordering_info_present_flag is 1 and 1 when it is 0; they
\* were read as triples (dec_pic_buffering, num_reorder, latency_increase),
\* one triple per sub-layer index, the indices increasing.
C9_SubLayerOrderingInfo ==
  ret = "sps" =>
    LET reads == Issues({"sps_max_dec_pic_buffering_minus1",
                         "sps_max_num_reorder_pics",
                         "sps_max_latency_increase_plus1"})
        first == IF sps.sps_sub_layer_ordering_info_present_flag = 1
                   THEN 0 ELSE sps.sps_max_sub_layers_minus1
        n == IF sps.sps_sub_layer_ordering_info_present_flag = 1
               THEN sps.sps_max_sub_layers_minus1 + 1 ELSE 1
    IN /\ Len(sps.sps_max_dec_pic_buffering_minus1) = n
       /\ Len(sps.sps_max_num_reorder_pics) = n
       /\ Len(sps.sps_max_latency_increase_plus1) = n
       /\ Len(reads) = 3 * n
       /\ \A j \in 1..n :
            /\ reads[3 * j - 2].f = "sps_max_dec_pic_buffering_minus1"
            /\ reads[3 * j - 1].f = "sps_max_num_reorder_pics"
            /\ reads[3 * j].f = "sps_max_latency_increase_plus1"
            /\ \A m \in 0..2 : reads[3 * j - m].i = first + j - 1
            /\ sps.sps_max_dec_pic_buffering_minus1[j] = reads[3 * j - 2].v
            /\ sps.sps_max_num_reorder_pics[j] = reads[3 * j - 1].v
            /\ sps.sps_max_latency_increase_plus1[j] = reads[3 * j].v

\* an entity of three sub-layers whose stream carries one triple only
C9_Witness ==
  /\ ret = "sps"
  /\ sps.sps_max_sub_layers_minus1 = 2
  /\ sps.sps_sub_layer_ordering_info_present_flag = 0
  /\ Len(sps.sps_max_num_reorder_pics) = 1

\* C10: in a returned entity with long_term_ref_pics_present_flag 1 the
\* lists lt_ref_pic_poc_lsb_sps and used_by_curr_pic_lt_sps_flag both have
\* num_long_term_ref_pics_sps entries, entry j of each from the j-th
\* (POC LSB, flag) pair of the stream; with the flag 0 both lists are empty
\* and num_long_term_ref_pics_sps is not read.
C10_LongTermRefPics ==
  ret = "sps" =>
    LET reads == Issues({"lt_ref_pic_poc_lsb_sps",
                         "used_by_curr_pic_lt_sps_flag"})
        n == sps.num_long_term_ref_pics_sps
    IN IF sps.long_term_ref_pics_present_flag = 1
         THEN /\ Len(Issues({"num_long_term_ref_pics_sps"})) = 1
              /\ Len(sps.lt_ref_pic_poc_lsb_sps) = n
              /\ Len(sps.used_by_curr_pic_lt_sps_flag) = n
              /\ Len(reads) = 2 * n
              /\ \A j \in 1..n :
                   /\ reads[2 * j - 1].f = "lt_ref_pic_poc_lsb_sps"
                   /\ reads[2 * j].f = "used_by_curr_pic_lt_sps_flag"
                   /\ reads[2 * j].at = reads[2 * j - 1].at + reads[2 * j - 1].n
                   /\ j > 1 => reads[2 * j - 1].at = reads[2 * j - 2].at + 1
                   /\ sps.lt_ref_pic_poc_lsb_sps[j] =
                        BitsToNat(data, reads[2 * j - 1].at, reads[2 * j - 1].n)
                   /\ sps.used_by_curr_pic_lt_sps_flag[j] =
                        data[reads[2 * j].at + 1]
         ELSE /\ sps.lt_ref_pic_poc_lsb_sps = <<>>
              /\ sps.used_by_curr_pic_lt_sps_flag = <<>>
              /\ Issues({"num_long_term_ref_pics_sps"}) = <<>>

\* an entity with two long-term reference pictures
C10_Witness ==
  /\ ret = "sps"
  /\ sps.long_term_ref_pics_present_flag = 1
  /\ sps.num_long_term_ref_pics_sps = 2
  /\ Len(sps.lt_ref_pic_poc_lsb_sps) = 2


\* the uint32_t addition x + y wraps: a member is held as the integer
\* congruent to it modulo 2^32 in -2^31 .. 2^31 - 1, so that a negative
\* integer stands for a value of 2^31 or more
Wraps(x, y) ==
  \/ x < 0 /\ y < 0
  \/ (x < 0) # (y < 0) /\ x + y >= 0

\* C11: getPicSizeInCtbsY has no failure mode on an entity that ParseSps
\* returns: whatever log2_min_luma_coding_block_size_minus3 and
\* log2_diff_max_min_luma_coding_block_size were decoded, the two 32-bit
\* additions do not wrap, the shift amount CtbLog2SizeY is below 32, and
\* CtbSizeY is nonzero, so that neither division divides by zero.
C11_GetPicSizeInCtbsYNoFailureMode ==
  ret = "sps" =>
    /\ ~Wraps(sps.log2_min_luma_coding_block_size_minus3, 3)
    /\ ~Wraps(sps.log2_min_luma_coding_block_size_minus3 + 3,
              sps.log2_diff_max_min_luma_coding_block_size)
    /\ 0 <= CtbLog2SizeY(sps) /\ CtbLog2SizeY(sps) < 32
    /\ 0 \notin ShiftLeftOne(CtbLog2SizeY(sps))
    /\ \A r \in getPicSizeInCtbsY(sps) : ~r.trap


\* C12: the extension-data loop terminates.  With sps_extension_4bits
\* nonzero every iteration reads exactly one bit, and only while
\* more_rbsp_data holds; the iterations are no more than the bits that
\* remained when the loop was entered; the loop is left as soon as nothing
\* but the RBSP stop bit and padding remain (everything after the next bit
\* is zero); with sps_extension_4bits 0 no extension-data bit is read; the
\* loop and the trailing-bits step always have a next step, and the
\* trailing-bits step leaves the entity as it was and returns.
C12_ExtensionDataLoop ==
  /\ [](LET reads == Issues({"sps_extension_data_flag"}) IN
         /\ sps.sps_extension_4bits = 0 => reads = <<>>
         /\ \A j \in 1..Len(reads) :
              /\ reads[j].ok /\ reads[j].n = 1
              /\ more_rbsp_data(data, reads[j].at)
              /\ j > 1 => reads[j].at = reads[j - 1].at + 1
         /\ reads # <<>> => Len(reads) <= Len(data) - reads[1].at
         /\ (pc = "rbsp_trailing_bits" /\ sps.sps_extension_4bits # 0) =>
              \A k \in (pos + 2)..Len(data) : data[k] = 0
         /\ pc \in {"more_rbsp_data", "sps_extension_data_flag",
                    "rbsp_trailing_bits"} =>
              ENABLED (sps_extension_data_loop \/ sps_extension_data_flag
                         \/ return_sps))
  /\ [][pc = "rbsp_trailing_bits" => sps' = sps /\ pc' = "done"]_vars

\* two extension-data bits were read, and the entity was returned
C12_Witness ==
  /\ Len(Issues({"sps_extension_data_flag"})) >= 2
  /\ ret = "sps"


\* C13: every lt_ref_pic_poc_lsb_sps entry is read with a width of exactly
\* log2_max_pic_order_cnt_lsb_minus4 + 4, a sum that does not wrap around
\* 32 bits: when the sum exceeds 32 the read fails and ParseSps returns
\* nullptr, and no entry is read with a width below 4.
C13_PocLsbWidth ==
  \A k \in 1..Len(trace) :
    trace[k].f = "lt_ref_pic_poc_lsb_sps" =>
      LET minus4 == sps.log2_max_pic_order_cnt_lsb_minus4 IN
      /\ ~Wraps(minus4, 4)
      /\ (minus4 < 0 \/ minus4 > 28) => (~trace[k].ok /\ ReturnedNullAt(k))
      /\ trace[k].ok => (trace[k].n = minus4 + 4 /\ trace[k].n >= 4)

====
